---- MODULE Spec2Model ----
(***************************************************************************)
(* Model of ed-exo-db-bootstrap (src/index.js).                            *)
(*                                                                         *)
(* The file holds two entry points.  The loader (lines 1-141) creates the  *)
(* flat table codex_entries and streams codex.json into it in batches.     *)
(* The normalizer (lines 142-418) rebuilds the species / regions /         *)
(* systems / bodies tables from the flat table, back-fills the foreign     *)
(* keys and drops the superseded columns.                                  *)
(*                                                                         *)
(* LoadSpec is the loader, NormSpec the normalizer.                        *)
(***************************************************************************)
EXTENDS Integers, Sequences, FiniteSets, TLC

\* ------------------------------------------------------------------------
\* Bounds of the model
\* ------------------------------------------------------------------------

\* Longest input document (number of entries of codex.json).
MaxInput == 4

\* The loader's batch size (1000 in the source, line 59), scaled down.
batchSize == 2

\* Most rows of the flat table when the normalizer starts.
MaxRows == 2

\* Most normalizer runs on one database.
MaxRuns == 2

\* Most database statements, over all runs, that fail for a reason outside
\* the program (a lost connection, a timeout).
MaxFaults == 1

VARIABLES
    \* ---- loader: the input document and the JSONStream (a `through` stream)
    input,        \* the entries of codex.json, in document order
    parsed,       \* how many entries the parser has queued into the stream
    source,       \* "idle" | "open" | "ended" | "error" | "closed"
    buffer,       \* the stream's internal queue (entry positions, END)
    paused,       \* jsonStream.paused
    \* ---- loader: closure state of insertData
    arrays,       \* every array object `batch` has referred to
    batch,        \* index into arrays of the array `batch` refers to now
    count,        \* accepted-entry counter
    flushers,     \* handler invocations suspended at `await pool.query`
    promise,      \* state of the promise insertData returns
    \* ---- loader: main and the database
    mainpc,       \* position of the loader's main
    tableExists,  \* codex_entries exists
    codex,        \* rows written to codex_entries, in commit order
    poolEnded,    \* pool.end() has been called
    logged,       \* console lines of main, in order
    \* ---- loader: observation of the run (history)
    issued,       \* every insertion issued, in call order: the row, the
                  \* handler, the array and index it was read from, the flush
    flushes,      \* number of flush loops started so far
    delivered,    \* entries handed to the data handler so far
    endEmitted,   \* the end handler has run
    failure,      \* <<>> or <<the counts of insertions issued, entries parsed
                  \* and entries delivered when the first insertion failed>>
    \* ---- normalizer: the database
    cols,         \* the columns of codex_entries
    flat,         \* the rows of codex_entries (the columns the model tracks)
    tables,       \* which of species, regions, systems, bodies exist
    species,      \* rows of species
    regions,      \* rows of regions
    systems,      \* rows of systems
    bodies,       \* rows of bodies
    serial,       \* last value of each table's id sequence
    \* ---- normalizer: the process
    npc,          \* position of the normalizer's main
    has,          \* the column probe's result (lines 235-240)
    err,          \* why the run's failing statement failed, or "none"
    exitCode,     \* exit status of the process (-1 while it runs)
    \* ---- normalizer: observation of the runs (history)
    run,          \* number of the current run
    faults,       \* statements failed so far for outside reasons
    prevDone      \* <<>> or <<the database as the previous run left it>>,
                  \* kept when that run completed

loadVars == <<input, parsed, source, buffer, paused, arrays, batch, count,
              flushers, promise, mainpc, tableExists, codex,
              issued, flushes, delivered, endEmitted, failure>>

normVars == <<cols, flat, tables, species, regions, systems, bodies, serial,
              npc, has, err, exitCode, run, faults, prevDone>>

vars == <<loadVars, normVars, poolEnded, logged>>

\* ------------------------------------------------------------------------
\* Loader: data
\* ------------------------------------------------------------------------

\* The category the data handler keeps (line 65).
TargetCategory == "Biology"

\* hud_category values of the entries; "undefined" is an entry without the field.
Categories == {"Biology", "Geology", "undefined"}

\* The fields of an entry the row transform passes to parseFloat
\* (lines 75-77, 79-80).
CoercedFields == {"x", "y", "z", "latitude", "longitude"}

\* JavaScript values of those fields: undefined (the entry has no such field),
\* a string of characters, a number m / 10^e, and NaN.
Undefined == [type |-> "undefined"]
Str(t) == [type |-> "string", text |-> t]
Num(m, e) == [type |-> "number", nan |-> FALSE, m |-> m, e |-> e]
NaN == [type |-> "number", nan |-> TRUE]

DigitChars == <<"0", "1", "2", "3", "4", "5", "6", "7", "8", "9">>
IsDigit(c) == \E i \in DOMAIN DigitChars : DigitChars[i] = c
DigitValue(c) == (CHOOSE i \in DOMAIN DigitChars : DigitChars[i] = c) - 1

\* The decimal digits of a natural number.
RECURSIVE DigitsOf(_)
DigitsOf(n) ==
    IF n < 10 THEN <<DigitChars[n + 1]>>
    ELSE Append(DigitsOf(n \div 10), DigitChars[(n % 10) + 1])

RECURSIVE PadLeft(_, _)
PadLeft(t, n) == IF Len(t) >= n THEN t ELSE PadLeft(<<"0">> \o t, n)

\* The string of a value, which parseFloat takes of its argument.
StringOf(v) ==
    IF v.type = "string" THEN v.text
    ELSE IF v.type = "undefined"
    THEN <<"u", "n", "d", "e", "f", "i", "n", "e", "d">>
    ELSE IF v.nan THEN <<"N", "a", "N">>
    ELSE LET a == IF v.m < 0 THEN -v.m ELSE v.m
             d == PadLeft(DigitsOf(a), v.e + 1)
         IN  (IF v.m < 0 THEN <<"-">> ELSE <<>>)
             \o SubSeq(d, 1, Len(d) - v.e)
             \o (IF v.e > 0
                 THEN <<".">> \o SubSeq(d, Len(d) - v.e + 1, Len(d))
                 ELSE <<>>)

\* The text without its leading white space.
RECURSIVE TrimStart(_)
TrimStart(t) == IF t # <<>> /\ Head(t) = " " THEN TrimStart(Tail(t)) ELSE t

\* The length of the longest prefix of digits.
RECURSIVE DigitRun(_)
DigitRun(t) ==
    IF t # <<>> /\ IsDigit(Head(t)) THEN 1 + DigitRun(Tail(t)) ELSE 0

\* The number a sequence of digits denotes, after the digits of acc.
RECURSIVE DigitsValue(_, _)
DigitsValue(t, acc) ==
    IF t = <<>> THEN acc
    ELSE DigitsValue(Tail(t), 10 * acc + DigitValue(Head(t)))

\* The number m / 10^e without trailing zeros in its fraction.
RECURSIVE Normalize(_, _)
Normalize(m, e) ==
    IF e > 0 /\ m % 10 = 0 THEN Normalize(m \div 10, e - 1) ELSE Num(m, e)

\* The length of the longest prefix of t that is a decimal literal: an
\* optional sign, digits, and an optional point with digits; 0 when t does
\* not start with one.  (Exponents and Infinity are not in the texts of the
\* model.)
LiteralPrefix(t) ==
    LET s == IF t # <<>> /\ Head(t) \in {"+", "-"} THEN 1 ELSE 0
        u == SubSeq(t, s + 1, Len(t))
        n == DigitRun(u)
        v == SubSeq(u, n + 1, Len(u))
        k == IF v # <<>> /\ Head(v) = "." THEN DigitRun(Tail(v)) ELSE 0
    IN  IF n + k = 0 THEN 0
        ELSE s + n + (IF v # <<>> /\ Head(v) = "." THEN 1 + k ELSE 0)

\* parseFloat (lines 75-77, 79-80): the number of the longest decimal literal
\* the trimmed text of the value starts with, NaN when it starts with none.
ParseFloat(v) ==
    LET t == TrimStart(StringOf(v))
        l == SubSeq(t, 1, LiteralPrefix(t))
        neg == l # <<>> /\ Head(l) = "-"
        u == IF l # <<>> /\ Head(l) \in {"+", "-"} THEN Tail(l) ELSE l
        n == DigitRun(u)
        digits == SelectSeq(u, IsDigit)
    IN  IF l = <<>> THEN NaN
        ELSE Normalize((IF neg THEN -1 ELSE 1) * DigitsValue(digits, 0),
                       Len(digits) - n)

\* The entries of the document: one without hud_category, one of another
\* category, and two Biology entries, one whose coerced fields are a missing
\* field, a text without a number, a text that starts with a number, a
\* numeric text and a number, and one whose coerced fields are all numeric.
Entries ==
    {[hud_category |-> "undefined", x |-> Str(<<"1">>), y |-> Str(<<"2">>),
      z |-> Str(<<"3">>), latitude |-> Undefined, longitude |-> Undefined],
     [hud_category |-> "Geology", x |-> Str(<<"1">>), y |-> Str(<<"2">>),
      z |-> Str(<<"3">>), latitude |-> Undefined, longitude |-> Undefined],
     [hud_category |-> "Biology", x |-> Undefined,
      y |-> Str(<<"a", "b", "c">>), z |-> Str(<<"1", "2", "a", "b", "c">>),
      latitude |-> Str(<<"1", ".", "5">>), longitude |-> Num(-25, 1)],
     [hud_category |-> "Biology", x |-> Str(<<"1", ".", "5", "0">>),
      y |-> Str(<<"0">>), z |-> Str(<<" ", "7">>),
      latitude |-> Num(3, 0), longitude |-> Str(<<"-", "3", ".", "2", "5">>)]}

\* The through stream queues null to signal the end of the data.
END == 0

\* A row that was in codex_entries before the load started.
PriorRow == [entry |-> 0]

\* The row the data handler builds from the entry at position p (lines 69-88).
\* The row is identified by the position of its entry in the document.
Row(p) ==
    [entry |-> p] @@ [f \in CoercedFields |-> ParseFloat(input[p][f])]

\* SQL NULL in a column of codex_entries.
SqlNull == [type |-> "null"]

\* The value a DECIMAL column gets from the query parameter v (lines 18-23,
\* 47-51, 95): an undefined parameter is sent as NULL, a number as its text,
\* and DECIMAL takes the text NaN as its not-a-number value.
DecimalColumn(v) == IF v.type = "undefined" THEN SqlNull ELSE v

\* The row of codex_entries an insertion of the parameters r adds.
Stored(r) ==
    [entry |-> r.entry] @@ [f \in CoercedFields |-> DecimalColumn(r[f])]

\* Sequences over S of length 0..n.
SeqUpTo(S, n) == UNION {[1..k -> S] : k \in 0..n}

\* ------------------------------------------------------------------------
\* Loader: the handlers' synchronous code, as functions of the closure state
\* ------------------------------------------------------------------------

\* The closure and stream state the handlers read and write.
Closure ==
    [source |-> source, buffer |-> buffer, paused |-> paused,
     arrays |-> arrays, batch |-> batch,
     count |-> count, flushers |-> flushers, promise |-> promise,
     issued |-> issued, flushes |-> flushes, delivered |-> delivered,
     endEmitted |-> endEmitted]

\* resolve() and reject(): the first settlement wins (lines 106, 117, 119, 124).
Settle(s, how) ==
    IF s.promise = "pending" THEN [s EXCEPT !.promise = how] ELSE s

\* A pause() that does not take effect.
PauseIgnored(s) == s

\* jsonStream.pause() (line 93).
Pause(s) == [s EXCEPT !.paused = TRUE]

\* `await pool.query(insertQuery, item)` for item i of array a in flush f
\* (lines 95, 114): the insertion is issued and the handler suspends.  A query
\* on a pool that has ended is rejected.
IssueQuery(s, h, a, i, f) ==
    [s EXCEPT !.flushers = @ \cup {[handler |-> h, arr |-> a, i |-> i,
                                     flush |-> f, doomed |-> poolEnded]},
              !.issued = Append(@, [row |-> s.arrays[a][i], handler |-> h,
                                    arr |-> a, i |-> i, flush |-> f])]

\* `for (const item of batch)` reaching its end in the end handler
\* (lines 116-117).
EndLoopDone(s) == Settle(s, "resolved")

\* An end handler that resolves without writing the rows left in the batch.
OnEndNoFlush(s) == EndLoopDone([s EXCEPT !.endEmitted = TRUE])

\* The end handler up to its first await (lines 110-117).
OnEnd(s) ==
    LET s1 == [s EXCEPT !.endEmitted = TRUE, !.flushes = @ + 1]
    IN  IF Len(s1.arrays[s1.batch]) = 0
        THEN EndLoopDone(s1)
        ELSE IssueQuery(s1, "end", s1.batch, 1, s1.flushes)

\* A data handler without the category test of lines 65-67.
OnDataNoFilter(s, p) ==
    LET s2 == [s EXCEPT !.delivered = @ + 1,
                        !.arrays[s.batch] = Append(@, Row(p)),
                        !.count = @ + 1]
    IN  IF Len(s2.arrays[s2.batch]) >= batchSize
        THEN LET s3 == [Pause(s2) EXCEPT !.flushes = @ + 1]
             IN  IssueQuery(s3, "data", s3.batch, 1, s3.flushes)
        ELSE s2

\* The data handler up to its first await, for the entry at position p
\* (lines 62-103).
OnData(s, p) ==
    LET s1 == [s EXCEPT !.delivered = @ + 1]
    IN  IF input[p].hud_category # TargetCategory
        THEN s1
        ELSE LET s2 == [s1 EXCEPT !.arrays[s1.batch] = Append(@, Row(p)),
                                  !.count = @ + 1]
             IN  IF Len(s2.arrays[s2.batch]) >= batchSize
                 THEN LET s3 == [Pause(s2) EXCEPT !.flushes = @ + 1]
                      IN  IssueQuery(s3, "data", s3.batch, 1, s3.flushes)
                 ELSE s2

\* through's drain(): emit the queued items while the stream is not paused.
RECURSIVE Drain(_)
Drain(s) ==
    IF s.buffer = <<>> \/ s.paused
    THEN s
    ELSE LET item == Head(s.buffer)
             s1 == [s EXCEPT !.buffer = Tail(@)]
         IN  IF item = END THEN OnEnd(s1) ELSE Drain(OnData(s1, item))

\* through's queue(data): buffer the item, then drain.
Queue(s, item) == Drain([s EXCEPT !.buffer = Append(@, item)])

\* jsonStream.resume() (line 98).
Resume(s) == Drain([s EXCEPT !.paused = FALSE])

\* The data handler after its flush loop (lines 97-98).
DataLoopDone(s) ==
    Resume([s EXCEPT !.arrays = Append(@, <<>>), !.batch = Len(s.arrays) + 1])

\* A handler resumed by a successful insertion: the next item of the array it
\* iterates, or the code after the loop.
AfterInsert(s, f) ==
    IF f.i < Len(s.arrays[f.arr])
    THEN IssueQuery(s, f.handler, f.arr, f.i + 1, f.flush)
    ELSE IF f.handler = "data" THEN DataLoopDone(s) ELSE EndLoopDone(s)

\* Catch blocks that skip the failed row and go on with the loop.
OnInsertErrorSkip(s, f) == AfterInsert(s, f)

\* jsonStream.destroy() (line 105): the stream drops what it has queued and
\* closes, and the file stream unpipes from it.
Destroy(s) == [s EXCEPT !.buffer = <<>>, !.source = "closed"]

\* The catch blocks of the two handlers (lines 104-107 and 118-120).
OnInsertError(s, f) ==
    IF f.handler = "data"
    THEN Settle(Destroy(s), "rejected")
    ELSE Settle(s, "rejected")

\* Write a closure state back to the variables.
Store(s) ==
    /\ source' = s.source
    /\ buffer' = s.buffer
    /\ paused' = s.paused
    /\ arrays' = s.arrays
    /\ batch' = s.batch
    /\ count' = s.count
    /\ flushers' = s.flushers
    /\ promise' = s.promise
    /\ issued' = s.issued
    /\ flushes' = s.flushes
    /\ delivered' = s.delivered
    /\ endEmitted' = s.endEmitted

\* ------------------------------------------------------------------------
\* Loader: actions
\* ------------------------------------------------------------------------

\* The normalizer's variables while the loader runs.
NormIdle ==
    /\ cols = {}
    /\ flat = <<>>
    /\ tables = {}
    /\ species = <<>>
    /\ regions = <<>>
    /\ systems = <<>>
    /\ bodies = <<>>
    /\ serial = <<>>
    /\ npc = "idle"
    /\ has = <<>>
    /\ err = "none"
    /\ exitCode = -1
    /\ run = 0
    /\ faults = 0
    /\ prevDone = <<>>

LoadInit ==
    /\ input \in SeqUpTo(Entries, MaxInput)
    /\ parsed = 0
    /\ source = "idle"
    /\ buffer = <<>>
    /\ paused = FALSE
    /\ arrays = << <<>> >>
    /\ batch = 1
    /\ count = 0
    /\ flushers = {}
    /\ promise = "pending"
    /\ mainpc = "createTable"
    /\ tableExists \in BOOLEAN
    /\ codex \in IF tableExists THEN {<<>>, <<PriorRow>>} ELSE {<<>>}
    /\ poolEnded = FALSE
    /\ logged = <<>>
    /\ issued = <<>>
    /\ flushes = 0
    /\ delivered = 0
    /\ endEmitted = FALSE
    /\ failure = <<>>
    /\ NormIdle

\* createTable succeeds (lines 9-36); main goes on to insertData, which opens
\* the stream and registers the handlers (lines 54-125).
CreateTableOk ==
    /\ mainpc = "createTable"
    /\ tableExists' = TRUE
    /\ logged' = Append(logged, "Table created successfully")
    /\ source' = "open"
    /\ mainpc' = "insertData"
    /\ UNCHANGED <<input, parsed, buffer, paused, arrays, batch, count, flushers,
                   promise, codex, poolEnded, issued, flushes, delivered,
                   endEmitted, failure>>
    /\ UNCHANGED normVars

\* A createTable whose catch block logs the error and does not rethrow it:
\* main goes on to insertData.
CreateTableFailSwallowed ==
    /\ mainpc = "createTable"
    /\ logged' = Append(logged, "Error creating table")
    /\ source' = "open"
    /\ mainpc' = "insertData"
    /\ UNCHANGED <<input, parsed, buffer, paused, arrays, batch, count, flushers,
                   promise, tableExists, codex, poolEnded, issued, flushes,
                   delivered, endEmitted, failure>>
    /\ UNCHANGED normVars

\* createTable's query fails (lines 37-40); main's catch and finally run
\* (lines 134-138).
CreateTableFail ==
    /\ mainpc = "createTable"
    /\ logged' = logged \o <<"Error creating table", "Error in main process">>
    /\ poolEnded' = TRUE
    /\ mainpc' = "done"
    /\ UNCHANGED <<input, parsed, source, buffer, paused, arrays, batch, count,
                   flushers, promise, tableExists, codex, issued, flushes,
                   delivered, endEmitted, failure>>
    /\ UNCHANGED normVars

\* The parser matches the next entry of the document and queues it.
SourceEntry ==
    /\ source = "open"
    /\ parsed < Len(input)
    /\ parsed' = parsed + 1
    /\ Store(Queue(Closure, parsed + 1))
    /\ UNCHANGED <<input, mainpc, tableExists, codex, poolEnded, logged,
                   failure>>
    /\ UNCHANGED normVars

\* The document ends: the stream queues null.
SourceEnd ==
    /\ source = "open"
    /\ parsed = Len(input)
    /\ Store(Queue([Closure EXCEPT !.source = "ended"], END))
    /\ UNCHANGED <<input, parsed, mainpc, tableExists, codex, poolEnded, logged,
                   failure>>
    /\ UNCHANGED normVars

\* The document is malformed at this point: the stream emits 'error'
\* (lines 123-125) and the file is unpiped.
SourceError ==
    /\ source = "open"
    /\ Store(Settle([Closure EXCEPT !.source = "error"], "rejected"))
    /\ UNCHANGED <<input, parsed, mainpc, tableExists, codex, poolEnded, logged,
                   failure>>
    /\ UNCHANGED normVars

\* An insertion succeeds: the row is committed and the awaiting handler runs
\* to its next await or to its end.
InsertOk ==
    \E f \in flushers :
        /\ ~f.doomed
        /\ codex' = Append(codex, Stored(arrays[f.arr][f.i]))
        /\ Store(AfterInsert([Closure EXCEPT !.flushers = @ \ {f}], f))
        /\ UNCHANGED <<input, parsed, mainpc, tableExists, poolEnded,
                       logged, failure>>
        /\ UNCHANGED normVars

\* An insertion fails: the awaiting handler's catch block runs.
InsertFail ==
    \E f \in flushers :
        /\ Store(OnInsertError([Closure EXCEPT !.flushers = @ \ {f}], f))
        /\ failure' = IF failure = <<>>
                      THEN <<[issued |-> Len(issued), parsed |-> parsed,
                              delivered |-> delivered]>>
                      ELSE failure
        /\ UNCHANGED <<input, parsed, mainpc, tableExists, codex, poolEnded,
                       logged>>
        /\ UNCHANGED normVars

\* main resumes from `await insertData()` (lines 132-138).
MainSettled ==
    /\ mainpc = "insertData"
    /\ promise # "pending"
    /\ logged' = Append(logged, IF promise = "resolved"
                                THEN "Data insertion completed successfully"
                                ELSE "Error in main process")
    /\ poolEnded' = TRUE
    /\ mainpc' = "done"
    /\ UNCHANGED <<input, parsed, source, buffer, paused, arrays, batch, count,
                   flushers, promise, tableExists, codex, issued, flushes,
                   delivered, endEmitted, failure>>
    /\ UNCHANGED normVars

LoadNext ==
    \/ CreateTableOk
    \/ CreateTableFail
    \/ SourceEntry
    \/ SourceEnd
    \/ SourceError
    \/ InsertOk
    \/ InsertFail
    \/ MainSettled

LoadSpec == LoadInit /\ [][LoadNext]_vars

\* ------------------------------------------------------------------------
\* Loader: properties
\* ------------------------------------------------------------------------

\* The positions of the accepted entries among the first k of the document.
Accepted(k) ==
    SelectSeq([i \in 1..k |-> i],
              LAMBDA p : input[p].hud_category = TargetCategory)

\* The rows of the entries at the positions ps.
RowsOf(ps) == [i \in DOMAIN ps |-> Row(ps[i])]

\* The rows of codex_entries the insertions of those rows add.
StoredOf(ps) == [i \in DOMAIN ps |-> Stored(Row(ps[i]))]

\* The rows of all the arrays, oldest array first.
RECURSIVE Flatten(_)
Flatten(ss) == IF ss = <<>> THEN <<>> ELSE Head(ss) \o Flatten(Tail(ss))

\* The rows the load has committed.
Loaded == SelectSeq(codex, LAMBDA r : r # PriorRow)

Range(f) == {f[i] : i \in DOMAIN f}

SuccessLine == "Data insertion completed successfully"

\* C1: a load in which no write fails and that insertData reports complete has
\* issued exactly one insertion per accepted entry, in document order, in
\* ceil(N/B) non-empty flushes: the data handler flushed rows (k-1)B+1..kB as
\* its k-th flush each time the batch reached B rows, and the end handler
\* flushed the remainder.
C1_BatchCompleteness ==
    (promise = "resolved" /\ failure = <<>>) =>
        LET acc == Accepted(Len(input))
            N == Len(acc)
        IN  /\ flushers = {}
            /\ Len(issued) = N
            /\ \A i \in 1..N :
                  /\ issued[i].row = Row(acc[i])
                  /\ issued[i].flush = ((i - 1) \div batchSize) + 1
                  /\ issued[i].handler =
                        IF i <= (N \div batchSize) * batchSize
                        THEN "data" ELSE "end"
            /\ Cardinality({issued[i].flush : i \in 1..N})
                  = (N + batchSize - 1) \div batchSize
            /\ Loaded = StoredOf(acc)

\* C1 witness: a completed load of more than one batch with a remainder.
C1_Witness ==
    /\ promise = "resolved"
    /\ failure = <<>>
    /\ mainpc = "done"
    /\ Len(Accepted(Len(input))) > batchSize
    /\ Len(Accepted(Len(input))) % batchSize # 0

\* C3: the entries handed to the data handler so far have put exactly the
\* Biology entries among them into the batch and the count, in order; every
\* row written comes from a Biology entry; insertData is rejected only by a
\* failed insertion or a malformed document; and when it resolves, a row of an
\* entry is in the table if and only if the entry's category is Biology.
C3_FilterCorrectness ==
    /\ count = Len(Accepted(delivered))
    /\ Flatten(arrays) = RowsOf(Accepted(delivered))
    /\ \A i \in DOMAIN issued :
          input[issued[i].row.entry].hud_category = TargetCategory
    /\ promise = "rejected" => (failure # <<>> \/ source = "error")
    /\ promise = "resolved" =>
          \A p \in 1..Len(input) :
              (Stored(Row(p)) \in Range(codex))
                  <=> (input[p].hud_category = TargetCategory)

\* C3 witness: a completed load of a document that holds a Biology entry, an
\* entry of another category and an entry without a category.
C3_Witness ==
    /\ promise = "resolved"
    /\ mainpc = "done"
    /\ {input[p].hud_category : p \in 1..Len(input)} = Categories
    /\ Len(Loaded) = 1

\* C6: once an insertion has failed no further insertion is issued, no further
\* entry is parsed or reaches the data handler, no insertion is outstanding,
\* insertData is rejected and main does not report success.
C6_FailFast ==
    failure # <<>> =>
        /\ Len(issued) = failure[1].issued
        /\ parsed = failure[1].parsed
        /\ delivered = failure[1].delivered
        /\ flushers = {}
        /\ promise = "rejected"
        /\ SuccessLine \notin Range(logged)

\* C6 witness: the first insertion of a threshold flush failed while rows of
\* the batch and entries of the document were still to come, and main ended.
C6_Witness ==
    /\ failure # <<>>
    /\ mainpc = "done"
    /\ Len(issued) < count
    /\ parsed < Len(input)
    /\ issued[Len(issued)].handler = "data"

\* C7: at most one handler is inside a flush loop, so at most one insertion is
\* outstanding; while the data handler is inside its loop the stream is
\* paused, the entry that filled the batch is the last one handed over, the end
\* handler has not run and the array it iterates is the current batch with
\* exactly batchSize rows; and no array is flushed twice nor any of its rows
\* inserted twice.
C7_Backpressure ==
    /\ Cardinality(flushers) <= 1
    /\ \A f \in flushers :
          f.handler = "data" =>
              /\ paused
              /\ ~endEmitted
              /\ f.arr = batch
              /\ Len(arrays[f.arr]) = batchSize
              /\ arrays[f.arr][batchSize] = Row(delivered)
    /\ \A i, j \in DOMAIN issued :
          issued[i].arr = issued[j].arr =>
              /\ issued[i].flush = issued[j].flush
              /\ issued[i].i = issued[j].i => i = j

\* C7 witness: the data handler awaits the last insertion of a full batch
\* while entries the parser has matched meanwhile wait in the stream's queue.
C7_Witness ==
    \E f \in flushers :
        /\ f.handler = "data"
        /\ f.i = batchSize
        /\ paused
        /\ buffer # <<>>


\* The value is a number, or a text that is a decimal literal after its
\* leading white space.
IsNumeric(v) ==
    \/ v.type = "number" /\ ~v.nan
    \/ /\ v.type = "string"
       /\ LET t == TrimStart(v.text)
          IN  t # <<>> /\ LiteralPrefix(t) = Len(t)

\* C13: in every row written, each of x, y, z, latitude and longitude is NULL
\* when the entry's value is missing or not numeric and is the number the
\* value denotes when it is numeric; and a load that resolves has written a
\* row for every accepted entry, whatever its five values.
C13_CoercedFields ==
    /\ \A i \in DOMAIN Loaded : \A f \in CoercedFields :
          LET raw == input[Loaded[i].entry][f]
          IN  IF IsNumeric(raw)
              THEN Loaded[i][f] = ParseFloat(raw) /\ Loaded[i][f] # NaN
              ELSE Loaded[i][f] = SqlNull
    /\ (mainpc = "done" /\ promise = "resolved") =>
          \A p \in DOMAIN input :
              input[p].hud_category = TargetCategory =>
                  \E i \in DOMAIN Loaded : Loaded[i].entry = p

\* createTable has logged that its statement failed.
CreateFailed == "Error creating table" \in Range(logged)

\* C15, every step: the create statement adds, removes and changes no row and
\* never removes the table, and no step of the load removes or changes a row
\* that is in the table.
C15_Step ==
    /\ mainpc = "createTable" => codex' = codex /\ (tableExists => tableExists')
    /\ Len(codex') >= Len(codex)
    /\ \A i \in DOMAIN codex : codex'[i] = codex[i]

\* C15: while createTable has not completed, and for ever when it has failed,
\* the input is not opened, no insertion is issued and no row is written; an
\* insertion is issued only after the success line of createTable, with the
\* table in place; on a table that exists the statement leaves every row as
\* it is.
C15_CreateBeforeInsert ==
    /\ []((mainpc = "createTable" \/ CreateFailed) =>
             /\ source = "idle"
             /\ parsed = 0
             /\ issued = <<>>
             /\ flushers = {}
             /\ Loaded = <<>>)
    /\ []((issued # <<>> \/ source # "idle") =>
             /\ tableExists
             /\ logged # <<>>
             /\ logged[1] = "Table created successfully")
    /\ [](CreateFailed => mainpc = "done" /\ promise = "pending")
    /\ [][C15_Step]_vars

\* C15 witness: createTable has succeeded on a table that held a row, and
\* the load has written a row after it.
C15_Witness ==
    /\ logged # <<>>
    /\ logged[1] = "Table created successfully"
    /\ Len(codex) >= 2
    /\ codex[1] = PriorRow
    /\ Len(Loaded) >= 1

\* C16: once pool.end has been called no insertion is outstanding, issued
\* before or after the call, and when main has logged the success
\* line every accepted entry, those of the last partial batch too, has its
\* row in the table.
C16_PoolEndsAfterInserts ==
    /\ poolEnded => flushers = {}
    /\ SuccessLine \in Range(logged) =>
          /\ poolEnded
          /\ Loaded = StoredOf(Accepted(Len(input)))

\* ------------------------------------------------------------------------
\* Normalizer: data
\* ------------------------------------------------------------------------

\* SQL NULL in a text column and in an integer column (serial ids start at 1).
NULL == "NULL"
NULLID == 0

\* The tables createNormalizedTables creates (lines 165-193).
AuxTables == {"species", "regions", "systems", "bodies"}

\* The columns createTable gives codex_entries (lines 12-30).
LoaderCols ==
    {"id", "english_name", "created_at", "reported_at", "cmdrName", "system",
     "x", "y", "z", "body", "latitude", "longitude", "entryid", "name",
     "category", "sub_category", "sub_category_localised", "region_name",
     "id64"}

\* The columns createNormalizedTables adds (lines 197-199).
FkCols == {"species_id", "system_id", "body_id"}

\* The columns cleanUpColumns drops (lines 384-395).
CleanupCols ==
    {"index_id", "hud_category", "name", "system", "x", "y", "z", "body",
     "name_localized", "category_localized", "region_name",
     "region_name_localised"}

\* The flat-table columns the statements of normalizeData read.
LegacyCols ==
    {"english_name", "region_name", "region_name_localised", "system", "body",
     "x", "y", "z"}

\* The columns whose values the model tracks.
TrackedCols == LegacyCols \cup FkCols \cup {"cmdrName"}

\* The flat tables the normalizer is started on: the loader's table, that
\* table without one of the legacy columns, and either with a
\* region_name_localised column.
Schemas ==
    {(LoaderCols \ m) \cup e :
        m \in {{}} \cup {{c} : c \in LegacyCols \cap LoaderCols},
        e \in SUBSET {"region_name_localised"}}

\* Flat rows the table is filled from.
FlatRowSamples ==
    {[cmdrName |-> "C1", english_name |-> "E1", region_name |-> "R1",
      region_name_localised |-> "L1", system |-> "S1", body |-> "B1",
      x |-> 0, y |-> 0, z |-> 0],
     [cmdrName |-> "C2", english_name |-> "E1", region_name |-> "R1",
      region_name_localised |-> "L2", system |-> "S1", body |-> "B1",
      x |-> 1, y |-> 0, z |-> 0],
     [cmdrName |-> "C1", english_name |-> "E2", region_name |-> "R2",
      region_name_localised |-> "L1", system |-> "S2", body |-> "B1",
      x |-> 0, y |-> 0, z |-> 0],
     [cmdrName |-> "C2", english_name |-> "E2", region_name |-> NULL,
      region_name_localised |-> NULL, system |-> "S1", body |-> NULL,
      x |-> 0, y |-> 0, z |-> 0],
     [cmdrName |-> "C1", english_name |-> NULL, region_name |-> "R1",
      region_name_localised |-> "L1", system |-> NULL, body |-> "B1",
      x |-> 0, y |-> 0, z |-> 0]}

\* Row r with the columns cs only.
Restrict(r, cs) == [c \in cs |-> r[c]]

\* The rows of a table with the columns cs only.
RestrictAll(rows, cs) == [i \in DOMAIN rows |-> Restrict(rows[i], cs)]

\* Every order in which the rows of a SELECT DISTINCT can come out.
Orders(S) ==
    {f \in [1..Cardinality(S) -> S] :
        \A i, j \in DOMAIN f : f[i] = f[j] => i = j}

\* The schema and row content of the database.
Db ==
    [cols |-> cols, flat |-> flat, tables |-> tables, species |-> species,
     regions |-> regions, systems |-> systems, bodies |-> bodies]

\* ------------------------------------------------------------------------
\* Normalizer: the SQL statements
\* ------------------------------------------------------------------------

\* INSERT of the tuples, in order, with a plain unique constraint on key:
\* a duplicate key is an error.
RECURSIVE InsertPlain(_, _, _, _)
InsertPlain(rows, last, tuples, key) ==
    IF tuples = <<>>
    THEN [rows |-> rows, last |-> last, err |-> "none"]
    ELSE LET t == Head(tuples)
             clash == \E i \in DOMAIN rows : \A k \in key : rows[i][k] = t[k]
         IN  IF clash
             THEN [rows |-> rows, last |-> last, err |-> "unique_violation"]
             ELSE InsertPlain(Append(rows, [id |-> last + 1] @@ t), last + 1,
                              Tail(tuples), key)

\* INSERT ... ON CONFLICT (key) DO NOTHING of the tuples, in order (lines 245-249,
\* 260-271, 295-297, 309-311, 331-333).  Every candidate row takes the next
\* value of the id sequence, also one that is then skipped.
RECURSIVE InsertSkip(_, _, _, _)
InsertSkip(rows, last, tuples, key) ==
    IF tuples = <<>>
    THEN [rows |-> rows, last |-> last, err |-> "none"]
    ELSE LET t == Head(tuples)
             clash == \E i \in DOMAIN rows : \A k \in key : rows[i][k] = t[k]
         IN  IF clash
             THEN InsertSkip(rows, last + 1, Tail(tuples), key)
             ELSE InsertSkip(Append(rows, [id |-> last + 1] @@ t), last + 1,
                             Tail(tuples), key)

\* SELECT DISTINCT english_name ... WHERE english_name IS NOT NULL
\* (lines 246-248).
SpeciesTuples ==
    {[english_name |-> flat[i].english_name] :
        i \in {j \in DOMAIN flat : flat[j].english_name # NULL}}

\* SELECT DISTINCT region_name [, region_name_localised] ... WHERE region_name
\* IS NOT NULL (lines 258-272).
RegionTuples ==
    {[name |-> flat[i].region_name,
      name_localised |-> IF has.has_region_name_localised
                         THEN flat[i].region_name_localised ELSE NULL] :
        i \in {j \in DOMAIN flat : flat[j].region_name # NULL}}

\* A systems statement that always joins the regions on region_name.
SystemRefsRegionAlways == {"system", "x", "y", "z", "region_name"}

\* The columns the systems statement reads (lines 282-312).
SystemRefs ==
    IF has.has_region_name
    THEN {"system", "x", "y", "z", "region_name"}
    ELSE {"system", "x", "y", "z"}

\* The region ids an inner JOIN gives flat row i: none when no region matches.
JoinedRegionIdsInner(i) ==
    {regions[k].id : k \in {k \in DOMAIN regions :
        flat[i].region_name # NULL /\ regions[k].name = flat[i].region_name}}

\* The region ids the LEFT JOIN gives flat row i; NULL when no region matches
\* (line 292).
JoinedRegionIds(i) ==
    LET m == {k \in DOMAIN regions : regions[k].name = flat[i].region_name}
    IN  IF flat[i].region_name = NULL \/ m = {}
        THEN {NULLID}
        ELSE {regions[k].id : k \in m}

\* The system_data of the systems statement (lines 284-294 and 300-308).
SystemTuples ==
    UNION {{[name |-> flat[i].system, x |-> flat[i].x, y |-> flat[i].y,
             z |-> flat[i].z, region_id |-> rid] :
               rid \in IF has.has_region_name
                       THEN JoinedRegionIds(i) ELSE {NULLID}} :
           i \in {j \in DOMAIN flat : flat[j].system # NULL}}

\* A body_data that LEFT JOINs the systems: a flat row with a body and no
\* systems row of its system gives a candidate without a system.
BodyTuplesLeftJoin ==
    UNION {{[name |-> flat[i].body, system_id |-> sid] :
               sid \in LET m == {k \in DOMAIN systems :
                                    /\ flat[i].system # NULL
                                    /\ systems[k].name = flat[i].system}
                       IN  IF m = {} THEN {NULLID}
                           ELSE {systems[k].id : k \in m}} :
           i \in {j \in DOMAIN flat : flat[j].body # NULL}}

\* The body_data of the bodies statement (lines 323-330).
BodyTuples ==
    {[name |-> flat[p[1]].body, system_id |-> systems[p[2]].id] :
        p \in {q \in (DOMAIN flat) \X (DOMAIN systems) :
                 /\ flat[q[1]].body # NULL
                 /\ flat[q[1]].system # NULL
                 /\ flat[q[1]].system = systems[q[2]].name}}

\* The SET clauses and the columns of the UPDATE (lines 341-363).
UpdateRefs ==
    (IF has.has_english_name THEN {"english_name", "species_id"} ELSE {})
    \cup (IF has.has_system THEN {"system", "body", "system_id", "body_id"}
          ELSE {})

\* The WHERE clause of the UPDATE for flat row i (lines 357-363, 369).
UpdateWhere(i) ==
    \/ has.has_english_name /\ flat[i].english_name # NULL
    \/ has.has_system /\ (flat[i].system # NULL \/ flat[i].body # NULL)

\* The ids the three scalar subqueries select for flat row i (lines 343-353).
SpeciesIds(i) ==
    {species[k].id : k \in {k \in DOMAIN species :
        flat[i].english_name # NULL /\ species[k].english_name = flat[i].english_name}}

SystemIds(i) ==
    {systems[k].id : k \in {k \in DOMAIN systems :
        flat[i].system # NULL /\ systems[k].name = flat[i].system}}

\* The body subquery without its join on the system name.
BodyIdsByName(i) ==
    {bodies[k].id : k \in {k \in DOMAIN bodies :
        flat[i].body # NULL /\ bodies[k].name = flat[i].body}}

BodyIds(i) ==
    {bodies[p[1]].id :
        p \in {q \in (DOMAIN bodies) \X (DOMAIN systems) :
                 /\ bodies[q[1]].system_id = systems[q[2]].id
                 /\ flat[i].body # NULL /\ flat[i].system # NULL
                 /\ bodies[q[1]].name = flat[i].body
                 /\ systems[q[2]].name = flat[i].system}}

\* The value of a scalar subquery that selects the ids S.
Scalar(S) == IF S = {} THEN NULLID ELSE CHOOSE v \in S : TRUE

\* Flat row i after the UPDATE.
Updated(i) ==
    IF ~UpdateWhere(i)
    THEN flat[i]
    ELSE LET r1 == IF has.has_english_name
                   THEN [flat[i] EXCEPT !.species_id = Scalar(SpeciesIds(i))]
                   ELSE flat[i]
         IN  IF has.has_system
             THEN [r1 EXCEPT !.system_id = Scalar(SystemIds(i)),
                             !.body_id = Scalar(BodyIds(i))]
             ELSE r1

\* A scalar subquery of the UPDATE selects more than one row.
UpdateAmbiguous ==
    \E i \in DOMAIN flat :
        /\ UpdateWhere(i)
        /\ \/ has.has_english_name /\ Cardinality(SpeciesIds(i)) > 1
           \/ has.has_system /\ Cardinality(SystemIds(i)) > 1
           \/ has.has_system /\ Cardinality(BodyIds(i)) > 1

\* ------------------------------------------------------------------------
\* Normalizer: actions
\* ------------------------------------------------------------------------

NoProbe ==
    [has_english_name |-> FALSE, has_region_name |-> FALSE,
     has_region_name_localised |-> FALSE, has_system |-> FALSE]

LoaderIdle ==
    /\ input = <<>>
    /\ parsed = 0
    /\ source = "idle"
    /\ buffer = <<>>
    /\ paused = FALSE
    /\ arrays = << <<>> >>
    /\ batch = 1
    /\ count = 0
    /\ flushers = {}
    /\ promise = "pending"
    /\ mainpc = "idle"
    /\ tableExists = TRUE
    /\ codex = <<>>
    /\ issued = <<>>
    /\ flushes = 0
    /\ delivered = 0
    /\ endEmitted = FALSE
    /\ failure = <<>>

NormInit ==
    /\ LoaderIdle
    /\ poolEnded = FALSE
    /\ logged = <<>>
    /\ cols \in Schemas
    /\ flat \in {RestrictAll(s, cols \cap TrackedCols) :
                    s \in SeqUpTo(FlatRowSamples, MaxRows)}
    /\ tables = {}
    /\ species = <<>>
    /\ regions = <<>>
    /\ systems = <<>>
    /\ bodies = <<>>
    /\ serial = [t \in AuxTables |-> 0]
    /\ npc = "teardown"
    /\ has = NoProbe
    /\ err = "none"
    /\ exitCode = -1
    /\ run = 1
    /\ faults = 0
    /\ prevDone = <<>>

\* The database, with its id sequences, as a statement finds it.
Cur ==
    [cols |-> cols, flat |-> flat, tables |-> tables, species |-> species,
     regions |-> regions, systems |-> systems, bodies |-> bodies,
     serial |-> serial]

\* The outcomes of a statement: it commits a new database, or it fails with
\* an error and changes nothing (a query string runs as one transaction).
Ok(db) == [err |-> "none", db |-> db]
Failed(cause) == [err |-> cause, db |-> Cur]

\* The teardown statement (lines 150-160).
TeardownStmt ==
    {Ok([Cur EXCEPT !.cols = cols \ FkCols,
                    !.flat = RestrictAll(flat, (cols \ FkCols) \cap TrackedCols),
                    !.tables = {},
                    !.species = <<>>, !.regions = <<>>,
                    !.systems = <<>>, !.bodies = <<>>,
                    !.serial = [t \in AuxTables |-> 0]])}

\* The create statement (lines 163-200).
CreateStmt ==
    IF tables # {} THEN {Failed("duplicate_table")}
    ELSE IF cols \cap FkCols # {} THEN {Failed("duplicate_column")}
    ELSE {Ok([Cur EXCEPT
            !.tables = AuxTables,
            !.cols = cols \cup FkCols,
            !.flat = [i \in DOMAIN flat |->
                         [c \in FkCols |-> NULLID] @@ flat[i]]])}

\* The outcome of an INSERT into table t that left rows r.
Inserted(t, r) ==
    IF r.err # "none"
    THEN Failed(r.err)
    ELSE Ok([Cur EXCEPT ![t] = r.rows, !.serial[t] = r.last])

\* The species statement (lines 244-250).
SpeciesStmt ==
    IF ~({"english_name"} \subseteq cols) THEN {Failed("undefined_column")}
    ELSE {Inserted("species",
                   InsertSkip(species, serial["species"], order,
                              {"english_name"})) :
            order \in Orders(SpeciesTuples)}

\* The regions statement (lines 258-274).
RegionsStmt ==
    IF ~({"region_name"} \subseteq cols) THEN {Failed("undefined_column")}
    ELSE {Inserted("regions",
                   InsertSkip(regions, serial["regions"], order, {"name"})) :
            order \in Orders(RegionTuples)}

\* The systems statement (lines 282-314).
SystemsStmt ==
    IF ~(SystemRefs \subseteq cols) THEN {Failed("undefined_column")}
    ELSE {Inserted("systems",
                   InsertSkip(systems, serial["systems"], order, {"name"})) :
            order \in Orders(SystemTuples)}

\* The bodies statement (lines 322-334).
BodiesStmt ==
    IF ~({"body", "system"} \subseteq cols) THEN {Failed("undefined_column")}
    ELSE {Inserted("bodies",
                   InsertSkip(bodies, serial["bodies"], order,
                              {"name", "system_id"})) :
            order \in Orders(BodyTuples)}

\* The UPDATE statement (lines 366-370).
UpdateStmt ==
    IF ~(UpdateRefs \subseteq cols) THEN {Failed("undefined_column")}
    ELSE IF UpdateAmbiguous THEN {Failed("cardinality_violation")}
    ELSE {Ok([Cur EXCEPT !.flat = [i \in DOMAIN flat |-> Updated(i)]])}

\* A cleanup statement that drops english_name, which species_id supersedes,
\* as well.
CleanupStmtDropsName ==
    {Ok([Cur EXCEPT !.cols = cols \ (CleanupCols \cup {"english_name"}),
                    !.flat = RestrictAll(flat,
                                 (cols \ (CleanupCols \cup {"english_name"}))
                                    \cap TrackedCols)])}

\* The cleanup statement (lines 382-396).
CleanupStmt ==
    {Ok([Cur EXCEPT !.cols = cols \ CleanupCols,
                    !.flat = RestrictAll(flat, (cols \ CleanupCols)
                                                 \cap TrackedCols)])}

\* The function a position of main is in, as its catch block logs it
\* (lines 204, 375, 399).
Where(pc) ==
    IF pc \in {"teardown", "create"} THEN "Error creating normalized tables"
    ELSE IF pc = "cleanup" THEN "Error cleaning up columns"
    ELSE "Error normalizing data"

\* A main whose catch block logs the error and does not call process.exit:
\* the finally block runs and the process ends with status 0.
AbortNoExit(cause) ==
    /\ err' = cause
    /\ logged' = logged \o <<Where(npc), "Error in main">>
    /\ exitCode' = 0
    /\ poolEnded' = TRUE
    /\ npc' = "exited"
    /\ UNCHANGED <<cols, flat, tables, species, regions, systems, bodies,
                   serial, has>>

\* A statement fails: the function's catch logs and rethrows, main's catch
\* logs and calls process.exit(1) (lines 203-206, 374-377, 398-401, 410-412).
\* The finally block of main does not run.
Abort(cause) ==
    /\ err' = cause
    /\ logged' = logged \o <<Where(npc), "Error in main">>
    /\ exitCode' = 1
    /\ npc' = "exited"
    /\ UNCHANGED <<cols, flat, tables, species, regions, systems, bodies,
                   serial, has, poolEnded>>

\* A statement commits; main goes on to the position next.
Commit(db, next) ==
    /\ cols' = db.cols
    /\ flat' = db.flat
    /\ tables' = db.tables
    /\ species' = db.species
    /\ regions' = db.regions
    /\ systems' = db.systems
    /\ bodies' = db.bodies
    /\ serial' = db.serial
    /\ npc' = next
    /\ UNCHANGED <<has, err, exitCode, poolEnded, logged>>

\* `await pool.query(...)` of a statement with the given outcomes.
Statement(outcomes, next) ==
    /\ \E o \in outcomes :
          IF o.err # "none" THEN Abort(o.err) ELSE Commit(o.db, next)
    /\ UNCHANGED <<run, faults, prevDone>>
    /\ UNCHANGED loadVars

\* A step of normalizeData whose column was not found: nothing is issued.
Skip(next) == Statement({Ok(Cur)}, next)

\* The run issues a query at its current position.
IssuesQuery ==
    \/ npc \in {"teardown", "create", "probe", "cleanup"}
    \/ npc = "species" /\ has.has_english_name
    \/ npc = "regions" /\ has.has_region_name
    \/ npc \in {"systems", "bodies"} /\ has.has_system
    \/ npc = "update" /\ (has.has_english_name \/ has.has_system)

\* A statement fails for a reason outside the program.
QueryFault ==
    /\ IssuesQuery
    /\ faults < MaxFaults
    /\ faults' = faults + 1
    /\ Abort("fault")
    /\ UNCHANGED <<run, prevDone>>
    /\ UNCHANGED loadVars

\* createNormalizedTables, first query (lines 150-160).
Teardown == npc = "teardown" /\ Statement(TeardownStmt, "create")

\* createNormalizedTables, second query (lines 163-202).
CreateTables == npc = "create" /\ Statement(CreateStmt, "probe")

\* normalizeData, the column probe (lines 212-240).
Probe ==
    /\ npc = "probe"
    /\ has' = [has_english_name |-> "english_name" \in cols,
               has_region_name |-> "region_name" \in cols,
               has_region_name_localised |-> "region_name_localised" \in cols,
               has_system |-> "system" \in cols]
    /\ npc' = "species"
    /\ UNCHANGED <<cols, flat, tables, species, regions, systems, bodies, serial,
                   err, exitCode, run, faults, prevDone, poolEnded, logged>>
    /\ UNCHANGED loadVars

\* normalizeData, species (lines 243-254).
InsertSpecies ==
    /\ npc = "species"
    /\ IF has.has_english_name
       THEN Statement(SpeciesStmt, "regions") ELSE Skip("regions")

\* normalizeData, regions (lines 257-278).
InsertRegions ==
    /\ npc = "regions"
    /\ IF has.has_region_name
       THEN Statement(RegionsStmt, "systems") ELSE Skip("systems")

\* normalizeData, systems (lines 281-318).
InsertSystems ==
    /\ npc = "systems"
    /\ IF has.has_system
       THEN Statement(SystemsStmt, "bodies") ELSE Skip("bodies")

\* normalizeData, bodies (lines 321-338).
InsertBodies ==
    /\ npc = "bodies"
    /\ IF has.has_system
       THEN Statement(BodiesStmt, "update") ELSE Skip("update")

\* normalizeData, the foreign-key update (lines 341-372).
UpdateForeignKeys ==
    /\ npc = "update"
    /\ IF has.has_english_name \/ has.has_system
       THEN Statement(UpdateStmt, "cleanup") ELSE Skip("cleanup")

\* cleanUpColumns (lines 380-397).
CleanUpColumns == npc = "cleanup" /\ Statement(CleanupStmt, "finish")

\* main after the three stages: the success line, then the finally block
\* (lines 409, 413-415).
Finish ==
    /\ npc = "finish"
    /\ logged' = Append(logged, "Database normalization completed successfully")
    /\ poolEnded' = TRUE
    /\ exitCode' = 0
    /\ npc' = "exited"
    /\ UNCHANGED <<cols, flat, tables, species, regions, systems, bodies, serial,
                   has, err, run, faults, prevDone>>
    /\ UNCHANGED loadVars

\* The normalizer is started again on the database the last run left.
Reinvoke ==
    /\ npc = "exited"
    /\ run < MaxRuns
    /\ run' = run + 1
    /\ prevDone' = IF exitCode = 0 THEN <<Db>> ELSE <<>>
    /\ npc' = "teardown"
    /\ has' = NoProbe
    /\ err' = "none"
    /\ exitCode' = -1
    /\ poolEnded' = FALSE
    /\ logged' = <<>>
    /\ UNCHANGED <<cols, flat, tables, species, regions, systems, bodies, serial,
                   faults>>
    /\ UNCHANGED loadVars

NormNext ==
    \/ Teardown
    \/ CreateTables
    \/ Probe
    \/ InsertSpecies
    \/ InsertRegions
    \/ InsertSystems
    \/ InsertBodies
    \/ UpdateForeignKeys
    \/ CleanUpColumns
    \/ Finish
    \/ QueryFault
    \/ Reinvoke

NormSpec == NormInit /\ [][NormNext]_vars

\* ------------------------------------------------------------------------
\* Normalizer: properties
\* ------------------------------------------------------------------------

\* The run has ended in an error.
RunFailed == npc = "exited" /\ exitCode = 1

\* The run has ended without an error.
RunCompleted == npc = "exited" /\ exitCode = 0

\* C2: when a run completes on the database a completed run left, the schema
\* and the rows of the flat table and of the four tables are what they were
\* after that earlier run.
C2_IdempotentRerun ==
    (RunCompleted /\ prevDone # <<>>) => Db = prevDone[1]

\* C4: whatever legacy columns the flat table has, no statement of the
\* populate-and-backfill stage refers to a column that does not exist.
C4_OnlyConfirmedColumns == err # "undefined_column"

\* C5: a run on the database an earlier run left, completed or aborted, does
\* not fail unless a statement of this run fails for an outside reason.
C5_RerunSucceeds ==
    (run > 1 /\ RunFailed) => err = "fault"

\* C8: when main has ended, in the loader or in the normalizer, pool.end()
\* has been called.
C8_PoolReleased ==
    (mainpc = "done" \/ npc = "exited") => poolEnded

\* The flat table has every legacy column of the loader but region_name.
NoRegionColumn ==
    /\ "region_name" \notin cols
    /\ {"english_name", "system", "body", "x", "y", "z"} \subseteq cols

\* The values of field k in the rows of a table.
Values(rows, k) == {rows[i][k] : i \in DOMAIN rows}

\* C9: on a flat table without region_name a run fails only for an outside
\* reason; when normalizeData has finished, regions is empty and its id
\* sequence untouched, species holds the distinct non-null english names,
\* systems the distinct non-null system names, each with the coordinates of
\* a flat row of that system and a null region, bodies the distinct (body,
\* system) pairs, and every flat row refers to the rows of its english_name,
\* system and body, or to none where the value is null.
C9_NoRegionColumn ==
    NoRegionColumn =>
        /\ RunFailed => err = "fault"
        /\ npc = "cleanup" =>
              /\ regions = <<>>
              /\ serial["regions"] = 0
              /\ Values(species, "english_name")
                    = Values(flat, "english_name") \ {NULL}
              /\ Values(systems, "name") = Values(flat, "system") \ {NULL}
              /\ \A k \in DOMAIN systems :
                    /\ systems[k].region_id = NULLID
                    /\ \E i \in DOMAIN flat :
                          /\ flat[i].system = systems[k].name
                          /\ flat[i].x = systems[k].x
                          /\ flat[i].y = systems[k].y
                          /\ flat[i].z = systems[k].z
              /\ {<<bodies[k].name, bodies[k].system_id>> : k \in DOMAIN bodies}
                    = {<<flat[i].body, flat[i].system_id>> :
                          i \in {j \in DOMAIN flat :
                                   flat[j].body # NULL /\ flat[j].system # NULL}}
              /\ \A i \in DOMAIN flat :
                    /\ IF flat[i].english_name = NULL
                       THEN flat[i].species_id = NULLID
                       ELSE \E k \in DOMAIN species :
                              /\ species[k].id = flat[i].species_id
                              /\ species[k].english_name = flat[i].english_name
                    /\ IF flat[i].system = NULL
                       THEN flat[i].system_id = NULLID
                       ELSE \E k \in DOMAIN systems :
                              /\ systems[k].id = flat[i].system_id
                              /\ systems[k].name = flat[i].system
                    /\ IF flat[i].body = NULL \/ flat[i].system = NULL
                       THEN flat[i].body_id = NULLID
                       ELSE \E k \in DOMAIN bodies :
                              /\ bodies[k].id = flat[i].body_id
                              /\ bodies[k].name = flat[i].body
                              /\ bodies[k].system_id = flat[i].system_id

\* C9 witness: normalizeData has finished on a flat table without region_name
\* whose rows name a species, two systems and a body.
C9_Witness ==
    /\ NoRegionColumn
    /\ npc = "cleanup"
    /\ Len(species) >= 1
    /\ Len(systems) = 2
    /\ Len(bodies) >= 1
    /\ \E i \in DOMAIN flat : flat[i].body_id # NULLID

\* No two rows of the table agree on the columns of key.
Unique(rows, key) ==
    \A i, j \in DOMAIN rows :
        (\A k \in key : rows[i][k] = rows[j][k]) => i = j

\* C10: no statement fails on a duplicate natural key; species has at most one
\* row per english_name, regions and systems at most one per name, bodies at
\* most one per (name, system_id); and once the systems statement has run,
\* every system name of the flat table has exactly one systems row.
C10_NaturalKeysUnique ==
    /\ err # "unique_violation"
    /\ Unique(species, {"english_name"})
    /\ Unique(regions, {"name"})
    /\ Unique(systems, {"name"})
    /\ Unique(bodies, {"name", "system_id"})
    /\ (npc \in {"bodies", "update", "cleanup"} /\ has.has_system) =>
          \A i \in DOMAIN flat :
              flat[i].system # NULL =>
                  Cardinality({k \in DOMAIN systems :
                                  systems[k].name = flat[i].system}) = 1

\* C10 witness: the systems statement has run on two flat rows of one system
\* with different coordinates; one candidate row was inserted, one skipped.
C10_Witness ==
    /\ npc = "bodies"
    /\ has.has_system
    /\ \E i, j \in DOMAIN flat :
          /\ flat[i].system # NULL
          /\ flat[i].system = flat[j].system
          /\ flat[i].x # flat[j].x
    /\ Len(systems) = 1
    /\ serial["systems"] = 2

\* The flat table has every column the loader creates.
FreshlyLoaded == LoaderCols \subseteq cols

\* C11: on a freshly loaded flat table a run fails only for an outside
\* reason, and when the UPDATE has run every flat row with a system has the
\* id of the one systems row of that name as system_id, every flat row with
\* a body and a system the id of the one bodies row of that body name in that
\* system as body_id, every flat row with an english_name the id of the one
\* species row of that name as species_id, and a row has a null reference
\* where the value it is looked up from is null.
C11_ForeignKeysBackfilled ==
    FreshlyLoaded =>
        /\ RunFailed => err = "fault"
        /\ npc = "cleanup" =>
              \A i \in DOMAIN flat :
                 /\ flat[i].species_id =
                       Scalar({species[k].id : k \in {k \in DOMAIN species :
                                  species[k].english_name = flat[i].english_name}})
                 /\ flat[i].english_name # NULL <=> flat[i].species_id # NULLID
                 /\ flat[i].system_id =
                       Scalar({systems[k].id : k \in {k \in DOMAIN systems :
                                  systems[k].name = flat[i].system}})
                 /\ flat[i].system # NULL <=> flat[i].system_id # NULLID
                 /\ flat[i].body_id =
                       Scalar({bodies[k].id : k \in {k \in DOMAIN bodies :
                                  /\ bodies[k].name = flat[i].body
                                  /\ bodies[k].system_id = flat[i].system_id
                                  /\ flat[i].system_id # NULLID}})
                 /\ (flat[i].body # NULL /\ flat[i].system # NULL)
                       <=> flat[i].body_id # NULLID

\* C11 witness: the UPDATE has run on a freshly loaded table of two rows
\* with the same body name in different systems, and each row refers to the
\* body of its own system.
C11_Witness ==
    /\ FreshlyLoaded
    /\ npc = "cleanup"
    /\ Len(flat) = 2
    /\ flat[1].body = flat[2].body
    /\ flat[1].system # flat[2].system
    /\ flat[1].body_id # NULLID
    /\ flat[2].body_id # NULLID
    /\ flat[1].body_id # flat[2].body_id
    /\ flat[1].species_id # NULLID

\* The n-th line from the end of a log.
Last(log, n) == IF Len(log) >= n THEN log[Len(log) + 1 - n] ELSE ""

\* The columns of the loader's table that the references supersede: name,
\* system, the coordinates, body, the region columns and the category fields.
Superseded ==
    {"name", "system", "x", "y", "z", "body", "region_name",
     "region_name_localised", "category", "sub_category",
     "sub_category_localised"}

\* C12: when a run has completed the flat table has none of the superseded
\* columns, and the cleanup statement never fails on a column that is absent.
C12_SupersededColumnsDropped ==
    /\ RunCompleted => cols \cap Superseded = {}
    /\ (RunFailed /\ Last(logged, 2) = "Error cleaning up columns")
          => err = "fault"

\* The positions of a run in the order main goes through them: the two
\* queries of createNormalizedTables, the probe and the five statements of
\* normalizeData, cleanUpColumns, the success line.
Positions ==
    <<"teardown", "create", "probe", "species", "regions", "systems",
      "bodies", "update", "cleanup", "finish", "exited">>

\* The stage a position belongs to.
StageOf(pc) ==
    IF pc \in {"teardown", "create"} THEN 1
    ELSE IF pc \in {"probe", "species", "regions", "systems", "bodies",
                    "update"} THEN 2
    ELSE IF pc = "cleanup" THEN 3
    ELSE 4

\* C14, every step: a run moves from a position to the next one only, so a
\* stage starts when the one before has completed; a step in which a statement
\* fails ends the run with exit status 1, leaves the database as the earlier
\* statements left it, and logs no success line; and after a failed run
\* nothing happens but a new start of the program.
C14_Step ==
    /\ (npc' # npc /\ err' = "none" /\ npc # "exited") =>
          /\ \E k \in 1..(Len(Positions) - 1) :
                npc = Positions[k] /\ npc' = Positions[k + 1]
          /\ StageOf(npc') \in {StageOf(npc), StageOf(npc) + 1}
    /\ (err = "none" /\ err' # "none") =>
          /\ npc' = "exited"
          /\ exitCode' = 1
          /\ Db' = Db
          /\ \A i \in DOMAIN logged' :
                logged'[i] # "Database normalization completed successfully"
    /\ RunFailed =>
          /\ Db' = Db
          /\ npc' = npc \/ (npc' = "teardown" /\ run' = run + 1)

\* C14: the stages run in the order teardown-and-create, populate-and-backfill,
\* cleanup, one after the other has completed; when a statement fails no later
\* stage starts, what the earlier statements changed stays, and the process
\* exits with status 1 without the success line.
C14_StagesInOrder ==
    /\ [](err # "none" => RunFailed)
    /\ [](RunCompleted =>
             Last(logged, 1) = "Database normalization completed successfully")
    /\ [][C14_Step]_vars

\* C14 witness: the cleanup statement has failed after normalizeData filled
\* the tables and the references; they are still there, the legacy columns
\* have not been dropped, and the process has exited with status 1.
C14_Witness ==
    /\ RunFailed
    /\ Last(logged, 2) = "Error cleaning up columns"
    /\ Len(systems) >= 1
    /\ "system" \in cols
    /\ \E i \in DOMAIN flat : flat[i].system_id # NULLID
    /\ ~poolEnded

\* The id of the regions row with the given name; null when the name is null
\* or no row has it.
RegionIdOf(n) ==
    Scalar({regions[k].id : k \in {k \in DOMAIN regions :
               n # NULL /\ regions[k].name = n}})

\* The systems statement has run with the region column present.
SystemsDoneWithRegion ==
    npc = "bodies" /\ has.has_system /\ has.has_region_name

\* C17 as stated: after the systems statement with the region column present,
\* every flat row with a system has a systems row of that name whose region
\* reference is null when the row's region_name is null or matches no regions
\* row, and the id of the regions row of that name otherwise.
C17_RegionOfEveryRow ==
    SystemsDoneWithRegion =>
        \A i \in DOMAIN flat :
            flat[i].system # NULL =>
                \E k \in DOMAIN systems :
                    /\ systems[k].name = flat[i].system
                    /\ systems[k].region_id = RegionIdOf(flat[i].region_name)

\* C17 amended: after the systems statement with the region column present,
\* every system name of the flat table has a systems row, and the row holds
\* the coordinates and the region of one flat row of that system: a null
\* region reference when that row's region_name is null or matches no regions
\* row, the id of the regions row of that name otherwise; so a system whose
\* flat rows all have the same region_name is stored with that region.
C17_RegionOfOneRow ==
    SystemsDoneWithRegion =>
        /\ \A i \in DOMAIN flat :
              flat[i].system # NULL =>
                  \E k \in DOMAIN systems : systems[k].name = flat[i].system
        /\ \A k \in DOMAIN systems :
              \E j \in DOMAIN flat :
                  /\ flat[j].system = systems[k].name
                  /\ flat[j].x = systems[k].x
                  /\ flat[j].y = systems[k].y
                  /\ flat[j].z = systems[k].z
                  /\ systems[k].region_id = RegionIdOf(flat[j].region_name)
                  /\ flat[j].region_name # NULL <=> systems[k].region_id # NULLID

\* C17 witness: the systems statement has run on two flat rows of one system,
\* one with a region and one without; the system is stored once, without a
\* region.
C17_Witness ==
    /\ SystemsDoneWithRegion
    /\ Len(flat) = 2
    /\ flat[1].system = flat[2].system
    /\ flat[1].region_name # NULL
    /\ flat[2].region_name = NULL
    /\ Len(regions) = 1
    /\ Len(systems) = 1
    /\ systems[1].region_id = NULLID

\* The bodies statement has been passed and the flat table still has the
\* columns it reads.
BodiesDone == npc \in {"update", "cleanup"}

\* C18: every bodies row has a non-null system_id that is the id of a systems
\* row; when the system column was not found bodies stays empty; and when it
\* was found bodies holds exactly one row for each (body, system) pair of a
\* flat row whose body and system are both non-null, under the id of the
\* systems row of that name, so that a flat row with a body and a null system
\* adds none.
C18_BodiesReferToSystems ==
    /\ \A k \in DOMAIN bodies :
          /\ bodies[k].system_id # NULLID
          /\ \E s \in DOMAIN systems : systems[s].id = bodies[k].system_id
    /\ (BodiesDone /\ ~has.has_system) => bodies = <<>>
    /\ (BodiesDone /\ has.has_system) =>
          /\ \A k \in DOMAIN bodies :
                \E i \in DOMAIN flat, s \in DOMAIN systems :
                    /\ flat[i].body # NULL
                    /\ flat[i].system # NULL
                    /\ flat[i].body = bodies[k].name
                    /\ flat[i].system = systems[s].name
                    /\ systems[s].id = bodies[k].system_id
          /\ Len(bodies) =
                Cardinality({<<flat[i].body, flat[i].system>> :
                                i \in {j \in DOMAIN flat :
                                         /\ flat[j].body # NULL
                                         /\ flat[j].system # NULL}})

\* C18 witness: the bodies statement has run on a flat row with a body and a
\* null system and a flat row with a body and a system; bodies has one row.
C18_Witness ==
    /\ npc = "update"
    /\ has.has_system
    /\ \E i \in DOMAIN flat : flat[i].body # NULL /\ flat[i].system = NULL
    /\ \E i \in DOMAIN flat : flat[i].body # NULL /\ flat[i].system # NULL
    /\ Len(bodies) = 1
    /\ Len(systems) = 1

\* The columns of the loader's table that no statement of the normalizer
\* names in a DROP COLUMN.
Surviving ==
    {"id", "english_name", "created_at", "reported_at", "cmdrName",
     "latitude", "longitude", "entryid", "category", "sub_category",
     "sub_category_localised", "id64"}

\* C19, every step: the flat table keeps its rows, in their places; no
\* surviving column is dropped; and in every row every column other than
\* species_id, system_id and body_id that the table still has keeps its value.
C19_Step ==
    /\ DOMAIN flat' = DOMAIN flat
    /\ cols \cap Surviving \subseteq cols'
    /\ \A i \in DOMAIN flat :
          /\ (DOMAIN flat[i]) \cap Surviving \subseteq DOMAIN flat'[i]
          /\ \A c \in ((DOMAIN flat[i]) \cap (DOMAIN flat'[i])) \ FkCols :
                flat'[i][c] = flat[i][c]

\* C19: no step of a normalizer run inserts or deletes a flat row or changes
\* the value of a flat column other than species_id, system_id and body_id,
\* and the columns that survive the cleanup are never dropped; so the rows
\* and their surviving columns are after the run what they were before it.
C19_FlatRowsKept == [][C19_Step]_vars

\* C19 witness: a run has completed on two flat rows with different
\* reporters; the legacy columns are gone, the references are set, and
\* english_name and cmdrName are in place.
C19_Witness ==
    /\ RunCompleted
    /\ Len(flat) = 2
    /\ "system" \notin cols
    /\ {"english_name", "cmdrName"} \subseteq DOMAIN flat[1]
    /\ flat[1].cmdrName # flat[2].cmdrName
    /\ flat[1].species_id # NULLID
    /\ flat[1].system_id # NULLID

====
